---------------------------- MODULE Spec2Model ----------------------------
(***************************************************************************)
(* A model of dotman.py: the dotfiles manager that links a repository     *)
(* tree into a home directory (restore), adopts a home path into the      *)
(* repository (stow) and gives it back (unstow).                          *)
(*                                                                         *)
(* A file name is a sequence of tokens: a token is a run of letters       *)
(* ("config"), a run of digits ("1") or one punctuation character ("."    *)
(* or "_").  No name of the model holds two adjacent letter tokens or two *)
(* adjacent digit tokens, so two names are the same string exactly when   *)
(* they are the same token sequence, and string concatenation is \o.      *)
(* A path is a sequence of names, <<>> is the filesystem root.            *)
(*                                                                         *)
(* The filesystem is a function from physical paths (no symbolic link     *)
(* among the parents) to nodes; a node is a directory, a regular file     *)
(* (with its inode number and its content) or a symbolic link (with the   *)
(* absolute path it holds).                                               *)
(***************************************************************************)
EXTENDS Integers, Sequences, FiniteSets, TLC

\* How many symbolic links one path resolution may follow before the
\* resolution is reported as a loop.
MaxHops == 4

\* How many commands one behaviour runs.
MaxOps == 2

\* The clock readings _now_stamp may return (1 .. MaxStamp).
MaxStamp == 1

---------------------------------------------------------------------------
\* Sequences

Front(s) == SubSeq(s, 1, Len(s) - 1)

Last(s) == s[Len(s)]

IsPrefix(a, b) == Len(a) <= Len(b) /\ SubSeq(b, 1, Len(a)) = a

\* Path.relative_to: the path below `root`, defined when IsPrefix(root, p).
RelativeTo(p, root) == SubSeq(p, Len(root) + 1, Len(p))

---------------------------------------------------------------------------
\* Names and their order

\* The tokens in the order of Python's string comparison (code points):
\* "." < digits < "_" < lower-case letters.
TokOrder ==
    << ".", "1", "2", "3", "4", "5", "6", "7", "8", "9", "_",
       "a", "app", "b", "bak", "bashrc", "bin", "config", "ext", "f", "g",
       "git", "home", "lnk", "local", "m", "notes", "pyc", "pycache",
       "repo", "scripts", "tool", "x", "y" >>

TokRank(t) == CHOOSE i \in 1..Len(TokOrder) : TokOrder[i] = t

\* str(i) for the suffix of a backup path and for a clock reading.
NumStr(i) == TokOrder[i + 1]

RECURSIVE NameLess(_, _)
\* a < b for two names (Python str.__lt__).
NameLess(a, b) ==
    IF b = <<>> THEN FALSE
    ELSE IF a = <<>> THEN TRUE
    ELSE IF Head(a) = Head(b) THEN NameLess(Tail(a), Tail(b))
    ELSE TokRank(Head(a)) < TokRank(Head(b))

RECURSIVE PathLess(_, _)
\* p < q for two paths (PurePath.__lt__: the lists of parts are compared).
PathLess(p, q) ==
    IF q = <<>> THEN FALSE
    ELSE IF p = <<>> THEN TRUE
    ELSE IF Head(p) = Head(q) THEN PathLess(Tail(p), Tail(q))
    ELSE NameLess(Head(p), Head(q))

RECURSIVE SortedPaths(_)
\* sorted(paths)
SortedPaths(S) ==
    IF S = {} THEN <<>>
    ELSE LET m == CHOOSE p \in S : \A q \in S \ {p} : PathLess(p, q)
         IN <<m>> \o SortedPaths(S \ {m})

---------------------------------------------------------------------------
\* The filesystem

Dir == [kind |-> "dir", ino |-> 0, data |-> "", to |-> <<>>]

File(i, d) == [kind |-> "file", ino |-> i, data |-> d, to |-> <<>>]

Link(p) == [kind |-> "link", ino |-> 0, data |-> "", to |-> p]

\* The result of a resolution that followed more than MaxHops links: a link
\* loop.  Such a path does not exist (stat's ELOOP is ignored by exists,
\* is_dir and is_symlink), and Path.resolve raises RuntimeError on it (as
\* pathlib does up to Python 3.12).
LoopPath == << <<"?">> >>

RECURSIVE Walk(_, _, _, _)
\* os.path.realpath, not strict: `cur` is resolved, `rest` is still to walk.
\* A missing component ends the walk: what is left is appended as it is.
Walk(f, cur, rest, fuel) ==
    IF rest = <<>> THEN cur
    ELSE IF Append(cur, Head(rest)) \notin DOMAIN f THEN cur \o rest
    ELSE IF f[Append(cur, Head(rest))].kind = "link"
         THEN IF fuel = 0 THEN LoopPath
              ELSE Walk(f, <<>>, f[Append(cur, Head(rest))].to \o Tail(rest), fuel - 1)
    ELSE Walk(f, Append(cur, Head(rest)), Tail(rest), fuel)

\* Path.resolve()
Resolve(f, p) == Walk(f, <<>>, p, MaxHops)

\* Where lstat looks: the parent resolved, the last component as it is.
LPath(f, p) == IF p = <<>> THEN <<>> ELSE Append(Resolve(f, Front(p)), Last(p))

\* The physical path r holds an entry.
Present(f, r) == r \in DOMAIN f \cup {<<>>}

\* The physical path r holds a directory.
DirAt(f, r) == r = <<>> \/ (r \in DOMAIN f /\ f[r].kind = "dir")

\* The physical path r holds a symbolic link.
LinkAt(f, r) == r \in DOMAIN f /\ f[r].kind = "link"

\* Path.exists(): follows links; a dangling link does not exist.
Exists(f, p) == Present(f, Resolve(f, p))

\* os.path.lexists()
LExists(f, p) == Present(f, LPath(f, p))

\* Path.is_symlink()
IsSymlink(f, p) == LinkAt(f, LPath(f, p))

\* Path.is_dir(): follows links.
IsDir(f, p) == DirAt(f, Resolve(f, p))

\* The entries of the directory at physical path d.
Children(f, d) == {q \in DOMAIN f : Len(q) = Len(d) + 1 /\ IsPrefix(d, q)}

\* The physical paths at and below q.
Subtree(f, q) == {r \in DOMAIN f : IsPrefix(q, r)}

\* Two physical paths hold the same inode.
SameNode(f, a, b) ==
    /\ Present(f, a)
    /\ Present(f, b)
    /\ \/ a = b
       \/ /\ a # <<>> /\ b # <<>>
          /\ f[a].kind = "file" /\ f[b].kind = "file"
          /\ f[a].ino = f[b].ino

\* os.path.samefile
SameFile(f, p, q) == SameNode(f, Resolve(f, p), Resolve(f, q))

\* The filesystem with node n at physical path q.
WithNode(f, q, n) == [r \in DOMAIN f \cup {q} |-> IF r = q THEN n ELSE f[r]]

\* The filesystem without the tree at physical path q.
Without(f, q) == [r \in DOMAIN f \ Subtree(f, q) |-> f[r]]

\* os.rename of the tree at physical path a to the free physical path b.
Renamed(f, a, b) ==
    [r \in (DOMAIN f \ Subtree(f, a)) \cup {b \o RelativeTo(q, a) : q \in Subtree(f, a)} |->
        IF IsPrefix(b, r) THEN f[a \o RelativeTo(r, b)] ELSE f[r]]

---------------------------------------------------------------------------
\* pathlib and shutil calls that may raise: each yields the filesystem after
\* the call and the exception raised ("" for none).

Ok(f) == [f |-> f, exc |-> ""]

Raise(f, e) == [f |-> f, exc |-> e]

\* The directory p made in the filesystem of r, unless r raised.
ThenMkdir(r, p) ==
    IF r.exc # "" THEN r ELSE Ok(WithNode(r.f, LPath(r.f, p), Dir))

RECURSIVE MkdirParents(_, _)
\* Path.mkdir(parents=True, exist_ok=True)
MkdirParents(f, p) ==
    IF p = <<>> THEN Ok(f)
    ELSE IF LExists(f, p)
         THEN IF IsDir(f, p) THEN Ok(f) ELSE Raise(f, "FileExistsError")
    ELSE IF ~Exists(f, Front(p)) THEN ThenMkdir(MkdirParents(f, Front(p)), p)
    ELSE IF ~IsDir(f, Front(p)) THEN Raise(f, "NotADirectoryError")
    ELSE ThenMkdir(Ok(f), p)

\* Path.symlink_to(source) at `target`.
SymlinkTo(f, target, source) ==
    IF LExists(f, target) THEN Raise(f, "FileExistsError")
    ELSE IF ~Exists(f, Front(target)) THEN Raise(f, "FileNotFoundError")
    ELSE IF ~IsDir(f, Front(target)) THEN Raise(f, "NotADirectoryError")
    ELSE Ok(WithNode(f, LPath(f, target), Link(source)))

\* os.rename(src, dst) as shutil.move calls it: an entry that is no
\* directory replaces one that is no directory; a directory cannot move
\* below itself.
MoveTo(f, src, dst) ==
    IF ~LExists(f, src) \/ ~Exists(f, Front(dst))
    THEN Raise(f, "FileNotFoundError")
    ELSE IF ~IsDir(f, Front(dst)) THEN Raise(f, "NotADirectoryError")
    ELSE IF IsPrefix(LPath(f, src), LPath(f, dst)) THEN Raise(f, "Error")
    ELSE IF LExists(f, dst)
         THEN IF DirAt(f, LPath(f, src)) \/ DirAt(f, LPath(f, dst))
              THEN Raise(f, "OSError")
              ELSE Ok(Renamed(Without(f, LPath(f, dst)), LPath(f, src), LPath(f, dst)))
    ELSE Ok(Renamed(f, LPath(f, src), LPath(f, dst)))

\* shutil.move(src, dst) within one filesystem: into dst when dst is a
\* directory, where the name must be free.
ShutilMove(f, src, dst) ==
    IF IsDir(f, dst)
    THEN IF LExists(f, Append(dst, Last(src))) THEN Raise(f, "Error")
         ELSE MoveTo(f, src, Append(dst, Last(src)))
    ELSE MoveTo(f, src, dst)

---------------------------------------------------------------------------
\* dotman.py

DEFAULT_IGNORE_DIRS == { <<"_", "_", "pycache", "_", "_">>, <<".", "git">> }

DEFAULT_IGNORE_SUFFIXES == { <<".", "pyc">> }

\* PurePath.suffix: from the last dot of the name, unless that dot is the
\* first or the last character.
Suffix(name) ==
    IF Len(name) >= 3 /\ name[Len(name) - 1] = "." /\ name[Len(name)] # "."
    THEN SubSeq(name, Len(name) - 1, Len(name))
    ELSE <<>>

\* str(path) + text
PathPlus(path, text) == Append(Front(path), Last(path) \o text)

\* Nothing is at `path`, not even a dangling link.
Free(f, path) == ~Exists(f, path) /\ ~IsSymlink(f, path)

RECURSIVE NextFree(_, _, _, _)
\* The while loop of _unique_backup_path.
NextFree(f, path, stamp, i) ==
    IF Free(f, PathPlus(path, <<".", "bak", ".", NumStr(stamp), ".", NumStr(i)>>))
    THEN PathPlus(path, <<".", "bak", ".", NumStr(stamp), ".", NumStr(i)>>)
    ELSE NextFree(f, path, stamp, i + 1)

\* A faulty _unique_backup_path: the name is not tested, and a second backup
\* at one clock reading takes the place of the first.
BackupPathUntested(f, path, stamp) ==
    PathPlus(path, <<".", "bak", ".", NumStr(stamp)>>)

_unique_backup_path(f, path, stamp) ==
    IF Free(f, PathPlus(path, <<".", "bak", ".", NumStr(stamp)>>))
    THEN PathPlus(path, <<".", "bak", ".", NumStr(stamp)>>)
    ELSE NextFree(f, path, stamp, 1)

_is_same_symlink(f, target, source) ==
    IsSymlink(f, target) /\ Resolve(f, target) = Resolve(f, source)

\* The exception of _is_same_symlink: Path.resolve raises RuntimeError on a
\* link loop, which the function does not catch.
SameSymlinkExc(f, target, source) ==
    IF /\ IsSymlink(f, target)
       /\ (Resolve(f, target) = LoopPath \/ Resolve(f, source) = LoopPath)
    THEN "RuntimeError"
    ELSE ""

_is_same_file_or_resolves_to_same(f, target, source) ==
    /\ Exists(f, target)
    /\ Exists(f, source)
    /\ \/ Resolve(f, target) = Resolve(f, source)
       \/ SameFile(f, target, source)

\* The test both link_path and run_stow make before they act.
AlreadySame(f, target, source) ==
    \/ _is_same_symlink(f, target, source)
    \/ _is_same_file_or_resolves_to_same(f, target, source)

_mkdirp(f, path, dry_run) ==
    IF IsDir(f, path) THEN Ok(f)
    ELSE IF Exists(f, path) /\ ~IsDir(f, path) THEN Raise(f, "ConflictError")
    ELSE IF dry_run THEN Ok(f)
    ELSE MkdirParents(f, path)

\* A faulty _backup_existing: the entry is removed where it should be renamed.
BackupRemoves(f, path, stamp, dry_run) ==
    IF dry_run THEN Ok(f) ELSE Ok(Without(f, LPath(f, path)))

\* `stamp` is the reading of _now_stamp().  Path.rename moves the entry
\* itself (a link is not followed).
_backup_existing(f, path, stamp, dry_run) ==
    IF dry_run THEN Ok(f)
    ELSE Ok(Renamed(f, LPath(f, path), LPath(f, _unique_backup_path(f, path, stamp))))

\* A faulty IsPlaceholder: the test that the directory is empty is left out.
IsPlaceholderFull(f, target, source) ==
    /\ IsDir(f, source)
    /\ Exists(f, target)
    /\ IsDir(f, target)
    /\ ~IsSymlink(f, target)

\* link_path, lines 110-116: the target is an empty real directory and the
\* source a directory.
IsPlaceholder(f, target, source) ==
    /\ IsDir(f, source)
    /\ Exists(f, target)
    /\ IsDir(f, target)
    /\ ~IsSymlink(f, target)
    /\ Children(f, Resolve(f, target)) = {}

\* link_path, lines 107-125: the target made free.
Cleared(f, target, source, dry_run, force, stamp) ==
    IF Exists(f, target) \/ IsSymlink(f, target)
    THEN IF IsPlaceholder(f, target, source)
         THEN IF dry_run THEN Ok(f) ELSE Ok(Without(f, LPath(f, target)))
         ELSE IF ~force THEN Raise(f, "ConflictError")
              ELSE _backup_existing(f, target, stamp, dry_run)
    ELSE Ok(f)

\* The result of link_path: the filesystem after, the action returned, the
\* exception raised.
LinkResult(r, res) ==
    [f |-> r.f, res |-> IF r.exc = "" THEN res ELSE "", exc |-> r.exc]

\* link_path, lines 127-133, after the target was made free (or not).
LinkCleared(cleared, target, source, dry_run) ==
    IF cleared.exc # "" \/ dry_run THEN LinkResult(cleared, "LINK")
    ELSE LinkResult(SymlinkTo(cleared.f, target, source), "LINK")

link_path(f, target, source, dry_run, force, stamp) ==
    IF SameSymlinkExc(f, target, source) # ""
    THEN LinkResult(Raise(f, "RuntimeError"), "")
    ELSE IF AlreadySame(f, target, source) THEN LinkResult(Ok(f), "SKIP")
    ELSE LinkCleared(Cleared(f, target, source, dry_run, force, stamp),
                     target, source, dry_run)

RECURSIVE SplitFrom(_, _)
\* str.split("__"): `acc` is the part being read, `s` what is left to scan.
SplitFrom(s, acc) ==
    IF s = <<>> THEN <<acc>>
    ELSE IF Len(s) >= 2 /\ s[1] = "_" /\ s[2] = "_"
         THEN <<acc>> \o SplitFrom(SubSeq(s, 3, Len(s)), <<>>)
    ELSE SplitFrom(Tail(s), Append(acc, Head(s)))

Split(name) == SplitFrom(name, <<>>)

\* Path(*parts): empty parts and "." parts are dropped.
PathOf(parts) == SelectSeq(parts, LAMBDA x : x # <<>> /\ x # <<".">>)

\* Path(*parts) of _map_top_level_to_home, the first part dot-prefixed.
DotFirst(parts) == PathOf(<< <<".">> \o parts[1] >> \o Tail(parts))

_map_top_level_to_home(name) == DotFirst(Split(name))

\* repo_dest_for_home_path, lines 199-221, for the path `rel` below home.
RepoDestOf(rel, dotfiles_root) ==
    IF rel = <<>> THEN [path |-> <<>>, exc |-> "ValueError"]
    ELSE IF Head(rel[1]) # "." THEN [path |-> <<>>, exc |-> "ValueError"]
    ELSE IF rel[1] = <<".", "config">>
         THEN IF Len(rel) < 2 THEN [path |-> <<>>, exc |-> "ValueError"]
              ELSE [path |-> dotfiles_root
                               \o << <<"config", "_", "_">> \o rel[2] >>
                               \o PathOf(SubSeq(rel, 3, Len(rel))),
                    exc |-> ""]
    ELSE IF /\ Len(rel) >= 3
            /\ SubSeq(rel, 1, 3) = << <<".", "local">>, <<"bin">>, <<"scripts">> >>
         THEN [path |-> dotfiles_root
                          \o << <<"local", "_", "_", "bin", "_", "_", "scripts">> >>
                          \o PathOf(SubSeq(rel, 4, Len(rel))),
               exc |-> ""]
    ELSE [path |-> dotfiles_root \o PathOf(<<Tail(rel[1])>>) \o PathOf(Tail(rel)),
          exc |-> ""]

\* repo_dest_for_home_path: the repository path, or the exception raised.
\* home_path is absolute and normalised, so os.path.abspath leaves it.
repo_dest_for_home_path(home_path, home, dotfiles_root) ==
    IF ~IsPrefix(home, home_path) THEN [path |-> <<>>, exc |-> "ValueError"]
    ELSE RepoDestOf(RelativeTo(home_path, home), dotfiles_root)

\* top.rglob("*"): everything below `top`; a linked directory is listed and
\* not entered.
RGlob(f, top) ==
    {top \o RelativeTo(r, Resolve(f, top)) :
        r \in Subtree(f, Resolve(f, top)) \ {Resolve(f, top)}}

\* source_root.iterdir()
IterDir(f, d) == {d \o RelativeTo(q, Resolve(f, d)) : q \in Children(f, Resolve(f, d))}

\* A run of run_restore so far: its filesystem, the outcome of each pair, and
\* the exception that ended it ("" while it runs).  Counted is lines 176-180
\* of run_restore for the result r of link_path.
Counted(rs, src, dst, r) ==
    IF r.exc = ""
    THEN [f |-> r.f,
          out |-> Append(rs.out, [src |-> src, dst |-> dst, res |-> r.res]),
          exc |-> ""]
    ELSE IF r.exc = "ConflictError"
    THEN [f |-> r.f,
          out |-> Append(rs.out, [src |-> src, dst |-> dst, res |-> "CONFLICT"]),
          exc |-> ""]
    ELSE [f |-> r.f, out |-> rs.out, exc |-> r.exc]

\* run_restore, lines 175-180, after _mkdirp gave `made`: its exception is
\* not caught.
PairMade(rs, src, dst, made, dry_run, force, stamp) ==
    IF made.exc # ""
    THEN [f |-> made.f, out |-> rs.out, exc |-> made.exc]
    ELSE Counted(rs, src, dst, link_path(made.f, dst, src, dry_run, force, stamp))

\* One step of run_restore's loop body for the pair (src, dst).
RestorePair(rs, src, dst, dry_run, force, stamp) ==
    PairMade(rs, src, dst, _mkdirp(rs.f, Front(dst), dry_run), dry_run, force, stamp)

\* The filters of iter_restore_links on a descendant of a top-level directory.
Skipped(f, src_path) ==
    \/ \E i \in 1..Len(src_path) : src_path[i] \in DEFAULT_IGNORE_DIRS
    \/ Suffix(Last(src_path)) \in DEFAULT_IGNORE_SUFFIXES
    \/ IsDir(f, src_path)

RECURSIVE RestoreWalk(_, _, _, _, _, _, _)
\* The inner loop of iter_restore_links driven by run_restore: `todo` is what
\* is left of sorted(top.rglob("*")).  The generator runs in step with the
\* loop, so each filter reads the filesystem as the earlier pairs left it.
RestoreWalk(rs, todo, top, base_target, dry_run, force, stamp) ==
    IF todo = <<>> \/ rs.exc # "" THEN rs
    ELSE IF Skipped(rs.f, Head(todo))
         THEN RestoreWalk(rs, Tail(todo), top, base_target, dry_run, force, stamp)
    ELSE RestoreWalk(RestorePair(rs, Head(todo),
                                 base_target \o RelativeTo(Head(todo), top),
                                 dry_run, force, stamp),
                     Tail(todo), top, base_target, dry_run, force, stamp)

\* The body of iter_restore_links' outer loop for one top-level entry.
RestoreTop(rs, top, base_target, dry_run, force, stamp) ==
    IF Last(top) \in DEFAULT_IGNORE_DIRS THEN rs
    ELSE IF IsDir(rs.f, top) /\ ~IsPrefix(<<"config", "_", "_">>, Last(top))
         THEN RestoreWalk(rs, SortedPaths(RGlob(rs.f, top)), top, base_target,
                          dry_run, force, stamp)
    ELSE IF ~IsDir(rs.f, top) /\ Suffix(Last(top)) \in DEFAULT_IGNORE_SUFFIXES
         THEN rs
    ELSE RestorePair(rs, top, base_target, dry_run, force, stamp)

RECURSIVE RestoreTops(_, _, _, _, _, _)
\* The outer loop of iter_restore_links driven by run_restore: `tops` is what
\* is left of sorted(source_root.iterdir()).
RestoreTops(rs, tops, home, dry_run, force, stamp) ==
    IF tops = <<>> \/ rs.exc # "" THEN rs
    ELSE RestoreTops(RestoreTop(rs, Head(tops),
                                home \o _map_top_level_to_home(Last(Head(tops))),
                                dry_run, force, stamp),
                     Tail(tops), home, dry_run, force, stamp)

\* The exit status of a finished run_restore.
RestoreStatus(out) ==
    IF \E i \in 1..Len(out) : out[i].res = "CONFLICT" THEN 2 ELSE 0

\* What a run of run_restore comes to: the filesystem after, the outcome of
\* each pair, the exception that ended the run ("" when it returned) and the
\* exit status (-1 when it did not return).
RestoreResult(rs) ==
    [f |-> rs.f, out |-> rs.out, exc |-> rs.exc,
     rc |-> IF rs.exc # "" THEN -1 ELSE RestoreStatus(rs.out)]

run_restore(f, home, source_root, dry_run, force, stamp) ==
    RestoreResult(RestoreTops([f |-> f, out |-> <<>>, exc |-> ""],
                              SortedPaths(IterDir(f, source_root)),
                              home, dry_run, force, stamp))

\* The exception of Path.resolve(strict=True), "" when the path resolves: a
\* missing component raises FileNotFoundError, a component below a regular
\* file NotADirectoryError, a link loop RuntimeError.
StrictExcAt(f, r) ==
    IF Present(f, r) THEN ""
    ELSE IF r = LoopPath THEN "RuntimeError"
    ELSE IF \E q \in DOMAIN f : IsPrefix(q, r) /\ f[q].kind = "file"
         THEN "NotADirectoryError"
    ELSE "FileNotFoundError"

StrictExc(f, p) == StrictExcAt(f, Resolve(f, p))

\* A run of run_stow or run_unstow so far: the filesystem, the outcome of
\* each path, the exit status and the exception that ended it.
Noted(rs, f, path, res, rc) ==
    [f |-> f, out |-> Append(rs.out, [path |-> path, res |-> res]),
     rc |-> rc, exc |-> ""]

Aborted(rs, f, e) == [f |-> f, out |-> rs.out, rc |-> rs.rc, exc |-> e]

\* run_stow, line 308, after shutil.move gave `linked`.
StowLinked(rs, src, linked) ==
    IF linked.exc # "" THEN Aborted(rs, linked.f, linked.exc)
    ELSE Noted(rs, linked.f, src, "STOW", rs.rc)

\* A faulty StowMoved: the link back to the repository is not made.
StowMovedUnlinked(rs, src, dst, moved) ==
    IF moved.exc # "" THEN Aborted(rs, moved.f, moved.exc)
    ELSE Noted(rs, moved.f, src, "STOW", rs.rc)

\* run_stow, lines 306-308, after shutil.move gave `moved`.
StowMoved(rs, src, dst, moved) ==
    IF moved.exc # "" THEN Aborted(rs, moved.f, moved.exc)
    ELSE StowLinked(rs, src, SymlinkTo(moved.f, src, dst))

\* run_stow, lines 298-308, after _mkdirp gave `made`.
StowMade(rs, src, dst, made, dry_run) ==
    IF made.exc # "" THEN Aborted(rs, made.f, made.exc)
    ELSE IF dry_run THEN Noted(rs, made.f, src, "STOW", rs.rc)
    ELSE StowMoved(rs, src, dst, ShutilMove(made.f, src, dst))

\* run_stow, lines 285-290: the result r of link_path.
StowRelinked(rs, src, r) ==
    IF r.exc = "" THEN Noted(rs, r.f, src, r.res, rs.rc)
    ELSE IF r.exc = "ConflictError" THEN Noted(rs, r.f, src, "CONFLICT", 2)
    ELSE Aborted(rs, r.f, r.exc)

\* run_stow, lines 277-308: the path maps to dst.
StowTo(rs, src, dst, dry_run, force, stamp) ==
    IF SameSymlinkExc(rs.f, src, dst) # "" THEN Aborted(rs, rs.f, "RuntimeError")
    ELSE IF AlreadySame(rs.f, src, dst) THEN Noted(rs, rs.f, src, "SKIP", rs.rc)
    ELSE IF ~Free(rs.f, dst)
         THEN IF _is_same_file_or_resolves_to_same(rs.f, dst, src)
              THEN StowRelinked(rs, src, link_path(rs.f, src, dst, dry_run, force, stamp))
              ELSE IF ~force THEN Noted(rs, rs.f, src, "CONFLICT", 2)
              ELSE StowMade(rs, src, dst,
                            _mkdirp(_backup_existing(rs.f, dst, stamp, dry_run).f,
                                    Front(dst), dry_run),
                            dry_run)
    ELSE StowMade(rs, src, dst, _mkdirp(rs.f, Front(dst), dry_run), dry_run)

\* run_stow, lines 273-308: the path is a real entry below home.
StowMapped(rs, src, d, dry_run, force, stamp) ==
    IF d.exc # "" THEN Aborted(rs, rs.f, d.exc)
    ELSE StowTo(rs, src, d.path, dry_run, force, stamp)

\* The body of run_stow's loop for one path (absolute and normalised).
StowOne(rs, src, home, dotfiles_root, dry_run, force, stamp) ==
    IF Free(rs.f, src) THEN Noted(rs, rs.f, src, "MISSING", 2)
    ELSE IF IsSymlink(rs.f, src)
         THEN IF StrictExc(rs.f, src) = "FileNotFoundError"
              THEN Noted(rs, rs.f, src, "BROKEN", 2)
              ELSE IF StrictExc(rs.f, src) # ""
                   THEN Aborted(rs, rs.f, StrictExc(rs.f, src))
              ELSE IF ~IsPrefix(dotfiles_root, Resolve(rs.f, src))
                   THEN Noted(rs, rs.f, src, "REFUSED", 2)
              ELSE Noted(rs, rs.f, src, "SKIP", rs.rc)
    ELSE IF ~IsPrefix(home, src) THEN Noted(rs, rs.f, src, "OUTSIDE", 2)
    ELSE StowMapped(rs, src, repo_dest_for_home_path(src, home, dotfiles_root),
                    dry_run, force, stamp)

\* run_unstow, line 369, after _mkdirp gave `made`.
UnstowMoved(rs, p, moved) ==
    IF moved.exc # "" THEN Aborted(rs, moved.f, moved.exc)
    ELSE Noted(rs, moved.f, p, "UNSTOW", rs.rc)

\* A faulty UnstowMade: the content is not moved back.
UnstowMadeUnmoved(rs, p, target, made) ==
    IF made.exc # "" THEN Aborted(rs, made.f, made.exc)
    ELSE Noted(rs, made.f, p, "UNSTOW", rs.rc)

\* run_unstow, lines 367-369, after p.unlink().
UnstowMade(rs, p, target, made) ==
    IF made.exc # "" THEN Aborted(rs, made.f, made.exc)
    ELSE UnstowMoved(rs, p, ShutilMove(made.f, target, p))

\* run_unstow, lines 365-369, in filesystem f.
UnstowIn(rs, f, p, target) ==
    UnstowMade(rs, p, target, _mkdirp(Without(f, LPath(f, p)), Front(p), FALSE))

\* The body of run_unstow's loop for one path (absolute and normalised).
UnstowOne(rs, p, dotfiles_root, dry_run, force, stamp) ==
    IF ~IsSymlink(rs.f, p) THEN Noted(rs, rs.f, p, "NOTLINK", 2)
    ELSE IF StrictExc(rs.f, p) = "FileNotFoundError"
         THEN Noted(rs, rs.f, p, "BROKEN", 2)
    ELSE IF StrictExc(rs.f, p) # "" THEN Aborted(rs, rs.f, StrictExc(rs.f, p))
    ELSE IF ~IsPrefix(dotfiles_root, Resolve(rs.f, p))
         THEN Noted(rs, rs.f, p, "REFUSED", 2)
    ELSE IF dry_run THEN Noted(rs, rs.f, p, "UNSTOW", rs.rc)
    ELSE IF Exists(rs.f, p) /\ ~IsSymlink(rs.f, p)
         THEN IF ~force THEN Noted(rs, rs.f, p, "CONFLICT", 2)
              ELSE UnstowIn(rs, _backup_existing(rs.f, p, stamp, FALSE).f, p,
                            Resolve(rs.f, p))
    ELSE UnstowIn(rs, rs.f, p, Resolve(rs.f, p))

RECURSIVE StowLoop(_, _, _, _, _, _, _)
\* The loop of run_stow: an exception ends it.
StowLoop(rs, paths, home, dotfiles_root, dry_run, force, stamp) ==
    IF paths = <<>> \/ rs.exc # "" THEN rs
    ELSE StowLoop(StowOne(rs, Head(paths), home, dotfiles_root, dry_run, force, stamp),
                  Tail(paths), home, dotfiles_root, dry_run, force, stamp)

RECURSIVE UnstowLoop(_, _, _, _, _, _)
\* The loop of run_unstow: an exception ends it.
UnstowLoop(rs, paths, dotfiles_root, dry_run, force, stamp) ==
    IF paths = <<>> \/ rs.exc # "" THEN rs
    ELSE UnstowLoop(UnstowOne(rs, Head(paths), dotfiles_root, dry_run, force, stamp),
                    Tail(paths), dotfiles_root, dry_run, force, stamp)

\* What a run of run_stow or run_unstow comes to: the filesystem after, the
\* outcome of each path, the exception that ended the run and the exit status
\* (-1 when the run did not return).
PathsResult(rs) ==
    [f |-> rs.f, out |-> rs.out, exc |-> rs.exc,
     rc |-> IF rs.exc # "" THEN -1 ELSE rs.rc]

run_stow(f, paths, home, dotfiles_root, dry_run, force, stamp) ==
    PathsResult(StowLoop([f |-> f, out |-> <<>>, rc |-> 0, exc |-> ""],
                         paths, home, dotfiles_root, dry_run, force, stamp))

\* run_unstow never reads `home`.
run_unstow(f, paths, home, dotfiles_root, dry_run, force, stamp) ==
    PathsResult(UnstowLoop([f |-> f, out |-> <<>>, rc |-> 0, exc |-> ""],
                           paths, dotfiles_root, dry_run, force, stamp))

---------------------------------------------------------------------------
\* The commands as a state machine

VARIABLES
    fs,     \* the filesystem
    nops,   \* how many commands have run
    last    \* the last command: its arguments, the filesystem before it, its result

vars == <<fs, nops, last>>

\* --home, --source and a directory that is neither.
Home == << <<"home">> >>

Repo == << <<"repo">> >>

Ext == << <<"ext">> >>

\* The filesystem holding the entries of S (pairs <<path, node>>) and a
\* directory at every path above one of them.
MakeFs(S) ==
    LET given == {e[1] : e \in S}
        above == UNION {{SubSeq(q, 1, n) : n \in 1..Len(q)} : q \in given} \ given
    IN [q \in given \cup above |->
           IF q \in given THEN (CHOOSE e \in S : e[1] = q)[2] ELSE Dir]

\* Repository trees: the tree of the self-test with ignored entries beside
\* it; two entries that map to one home path; an entry that maps below a
\* directory linked as a whole; a regular file named as a ~/.config directory.
RepoTrees ==
    { { <<Repo \o << <<"bashrc">> >>, File(1, "bashrc")>>,
        <<Repo \o << <<"config", "_", "_", "x">>, <<"f">> >>, File(2, "f")>>,
        <<Repo \o << <<"local", "_", "_", "bin", "_", "_", "scripts">>, <<"tool">> >>,
          File(3, "tool")>>,
        <<Repo \o << <<".", "git">>, <<"m">> >>, File(4, "git")>>,
        <<Repo \o << <<"m", ".", "pyc">> >>, File(5, "pyc")>> },
      { <<Repo \o << <<"config">>, <<"x">> >>, File(3, "cx")>>,
        <<Repo \o << <<"config", "_", "_", "x">>, <<"f">> >>, File(2, "f")>> },
      { <<Repo \o << <<"config", "_", "_", "x">>, <<"f">> >>, File(2, "f")>>,
        <<Repo \o << <<"config", "_", "_", "x", "_", "_", "y">> >>, File(3, "y")>> },
      { <<Repo \o << <<"bashrc">> >>, File(1, "bashrc")>>,
        <<Repo \o << <<"config", "_", "_", "app">> >>, File(2, "app")>> } }

\* Home directories: empty; a regular file and an empty directory where
\* restore links; a directory with content where restore links, and a path
\* that is not dot-prefixed; a regular file where restore needs a directory,
\* and a link to somewhere else; a hard link to the repository file and a
\* file to stow.
HomeTrees ==
    { { <<Home, Dir>> },
      { <<Home \o << <<".", "bashrc">> >>, File(6, "old")>>,
        <<Home \o << <<".", "config">>, <<"x">> >>, Dir>> },
      { <<Home \o << <<".", "config">>, <<"x">>, <<"g">> >>, File(7, "g")>>,
        <<Home \o << <<"notes">> >>, File(8, "notes")>> },
      { <<Home \o << <<".", "config">> >>, File(6, "cfg")>>,
        <<Home \o << <<".", "bashrc">> >>, Link(Ext \o << <<"f">> >>)>> },
      { <<Home \o << <<".", "bashrc">> >>, File(1, "bashrc")>>,
        <<Home \o << <<".", "config">>, <<"app">>, <<"g">> >>, File(7, "g")>> } }

\* Outside both: a regular file, and a link into the repository.
ExtTree ==
    { <<Ext \o << <<"f">> >>, File(9, "ext")>>,
      <<Ext \o << <<"lnk">> >>, Link(Repo \o << <<"bashrc">> >>)>> }

\* The paths given to stow and unstow.
Paths ==
    { Home \o << <<".", "bashrc">> >>,
      Home \o << <<".", "config">> >>,
      Home \o << <<".", "config">>, <<"x">> >>,
      Home \o << <<".", "config">>, <<"x">>, <<"g">> >>,
      Home \o << <<".", "config">>, <<"app">>, <<"g">> >>,
      Home \o << <<"notes">> >>,
      Ext \o << <<"f">> >>,
      Ext \o << <<"lnk">> >> }

\* The path lists: one path (the file outside home comes first of two
\* only), or a path that fails followed by another.
PathLists ==
    {<<q>> : q \in Paths \ {Ext \o << <<"f">> >>}}
    \cup { <<Home \o << <<"notes">> >>, Home \o << <<".", "config">>, <<"x">>, <<"g">> >> >>,
           <<Ext \o << <<"f">> >>, Home \o << <<".", "config">>, <<"x">>, <<"g">> >> >> }

Stamps == 1..MaxStamp

\* The clock is read in _backup_existing only, which a run reaches only with
\* force; a dry run computes the backup name and changes nothing.
StampsFor(dry_run, force) == IF force /\ ~dry_run THEN Stamps ELSE {1}

NoOp ==
    [op |-> "none", dry_run |-> FALSE, force |-> FALSE, paths |-> <<>>,
     pre |-> <<>>, out |-> <<>>, exc |-> "", rc |-> 0]

\* A home and a repository that forced runs have left: ~/.config/x is stowed,
\* and a backup is beside it and beside the repository directory.
UsedTree ==
    { <<Home \o << <<".", "config">>, <<"x">> >>, Link(Repo \o << <<"config", "_", "_", "x">> >>)>>,
      <<Home \o << <<".", "config">>, <<"x", ".", "bak", ".", "1">>, <<"g">> >>, File(7, "g")>>,
      <<Repo \o << <<"config", "_", "_", "x">>, <<"f">> >>, File(2, "f")>>,
      <<Repo \o << <<"config", "_", "_", "x", ".", "bak", ".", "1">>, <<"f">> >>, File(3, "old")>> }

\* The filesystems a behaviour starts from.
Trees == {r \cup h : r \in RepoTrees, h \in HomeTrees} \cup {UsedTree}

Init ==
    /\ \E t \in Trees : fs = MakeFs(t \cup ExtTree)
    /\ nops = 0
    /\ last = NoOp

Ran(op, dry_run, force, paths, r) ==
    /\ fs' = r.f
    /\ nops' = nops + 1
    /\ last' = [op |-> op, dry_run |-> dry_run, force |-> force, paths |-> paths,
                pre |-> fs, out |-> r.out, exc |-> r.exc, rc |-> r.rc]

Restore ==
    /\ nops < MaxOps
    /\ \E dry_run \in BOOLEAN, force \in BOOLEAN :
         \E stamp \in StampsFor(dry_run, force) :
         Ran("restore", dry_run, force, <<>>,
             run_restore(fs, Home, Repo, dry_run, force, stamp))

Stow ==
    /\ nops < MaxOps
    /\ \E paths \in PathLists, dry_run \in BOOLEAN, force \in BOOLEAN :
         \E stamp \in StampsFor(dry_run, force) :
         Ran("stow", dry_run, force, paths,
             run_stow(fs, paths, Home, Repo, dry_run, force, stamp))

Unstow ==
    /\ nops < MaxOps
    /\ \E paths \in PathLists, dry_run \in BOOLEAN, force \in BOOLEAN :
         \E stamp \in StampsFor(dry_run, force) :
         Ran("unstow", dry_run, force, paths,
             run_unstow(fs, paths, Home, Repo, dry_run, force, stamp))

Next == Restore \/ Stow \/ Unstow

Spec == Init /\ [][Next]_vars


---------------------------------------------------------------------------
\* The two name mappings as a state machine of their own: a repository
\* top-level entry name is mapped to its home path (iter_restore_links),
\* and that home path back to a repository path (run_stow).

\* How many "__"-separated parts a name of the mapping run holds.
MaxParts == 3

\* The parts a name is joined from: empty, plain, the special-cased ones,
\* one with a dot and one with an underscore of its own.
NameParts ==
    { <<>>, <<"a">>, <<"b">>, <<"config">>, <<"local">>, <<"bin">>,
      <<"scripts">>, <<".", "git">>, <<"a", "_", "b">> }

RECURSIVE Joined(_)
\* "__".join(parts)
Joined(parts) ==
    IF Len(parts) = 1 THEN parts[1]
    ELSE parts[1] \o <<"_", "_">> \o Joined(Tail(parts))

\* The entry names: what the parts join to, the empty string left out.
Names ==
    { Joined(parts) :
        parts \in UNION {[1..n -> NameParts] : n \in 1..MaxParts} } \ {<<>>}

InitMap ==
    /\ fs = MakeFs({ <<Home, Dir>>, <<Repo, Dir>> })
    /\ nops = 0
    /\ \E name \in Names : last = [op |-> "name", name |-> name]

\* iter_restore_links, line 147: the home path of a top-level entry.
MapName ==
    /\ last.op = "name"
    /\ nops' = nops + 1
    /\ last' = [op |-> "home", name |-> last.name,
                home_path |-> Home \o _map_top_level_to_home(last.name)]
    /\ UNCHANGED fs

\* run_stow, lines 273-275: the repository path of that home path.
DestName ==
    /\ last.op = "home"
    /\ nops' = nops + 1
    /\ last' = [op |-> "dest", name |-> last.name, home_path |-> last.home_path,
                dest |-> repo_dest_for_home_path(last.home_path, Home, Repo)]
    /\ UNCHANGED fs

NextMap == MapName \/ DestName

SpecMap == InitMap /\ [][NextMap]_vars

---------------------------------------------------------------------------
\* Properties

\* The members of a sequence.
Elems(s) == {s[i] : i \in 1..Len(s)}

\* The outcomes of a run in order, without the paths.
Outcomes(out) == [i \in 1..Len(out) |-> out[i].res]

\* The targets a run reported in conflict.
Conflicts(out) == {o.dst : o \in {x \in Elems(out) : x.res = "CONFLICT"}}

\* Something is at `path`, be it a dangling link.
Occupied(f, path) == Exists(f, path) \/ IsSymlink(f, path)

\* The tree at physical path a of f is the tree at physical path b of g.
SubtreeSame(f, a, g, b) ==
    /\ Present(f, a)
    /\ {RelativeTo(r, a) : r \in Subtree(f, a)} = {RelativeTo(r, b) : r \in Subtree(g, b)}
    /\ \A r \in Subtree(f, a) : g[b \o RelativeTo(r, a)] = f[r]

\* The run r of run_restore, made after a run with the outcomes `first`
\* that left the filesystem f, changes nothing and reports no new conflict.
NothingNew(f, first, r) ==
    /\ r.f = f
    /\ Conflicts(r.out) \subseteq Conflicts(first)

\* C1: run_restore (not dry) run a second time with the same arguments
\* leaves the filesystem as the first run left it, and reports no conflict
\* the first run did not report.
RestoreIdempotent ==
    (last.op = "restore" /\ ~last.dry_run)
        => \A stamp \in Stamps :
              NothingNew(fs, last.out,
                         run_restore(fs, Home, Repo, FALSE, last.force, stamp))

\* C3: the home path that _map_top_level_to_home gives for the entry name N
\* is mapped back by repo_dest_for_home_path to dotfiles_root / N.
NameRoundTrip ==
    last.op = "dest"
        => /\ last.dest.exc = ""
           /\ last.dest.path = Append(Repo, last.name)

\* The pairs (source, target) that iter_restore_links yields in filesystem f.
RestorePairs(f) == Elems(run_restore(f, Home, Repo, TRUE, FALSE, 1).out)

\* An empty directory that is no link is at `target`.
EmptyRealDir(f, target) ==
    /\ DirAt(f, LPath(f, target))
    /\ ~\E q \in DOMAIN f : q # <<>> /\ Front(q) = LPath(f, target)

\* `target` holds content that is not the link wanted: it is neither the
\* source already nor an empty placeholder for a source directory.
Foreign(f, target, source) ==
    /\ Occupied(f, target)
    /\ ~AlreadySame(f, target, source)
    /\ ~(EmptyRealDir(f, target) /\ IsDir(f, source))

\* The names '<target>.bak.<stamp>' and '<target>.bak.<stamp>.<n>'.
BackupNames(target, stamp) ==
    {PathPlus(target, <<".", "bak", ".", NumStr(stamp)>>)}
    \cup {PathPlus(target, <<".", "bak", ".", NumStr(stamp), ".", NumStr(n)>>) : n \in 1..8}

\* link_path gave r in filesystem f without force: a conflict, which
\* run_restore counts and answers with exit status 2, and nothing changed.
Refused(f, target, source, r) ==
    /\ r.exc = "ConflictError"
    /\ r.f = f
    /\ RestoreStatus(Counted([f |-> f, out |-> <<>>, exc |-> ""], source, target, r).out) = 2

\* link_path gave r in filesystem f with force: what was at the target is
\* at a backup name that was free, and the target is a link to the source.
BackedUp(f, target, source, stamp, r) ==
    /\ r.exc = ""
    /\ r.res = "LINK"
    /\ \E b \in BackupNames(target, stamp) :
          /\ ~Occupied(f, b)
          /\ SubtreeSame(f, LPath(f, target), r.f, LPath(r.f, b))
    /\ IsSymlink(r.f, target)
    /\ r.f[LPath(r.f, target)] = Link(source)
    /\ Resolve(r.f, target) = Resolve(r.f, source)

\* C2: for a pair of restore whose target holds foreign content, link_path
\* without force raises the conflict (exit status 2 of run_restore) and
\* changes nothing; link_path with force then moves what was there,
\* unchanged, to '<target>.bak.<stamp>[.<n>]' and leaves the target a link
\* that resolves to its source.
ConflictThenForce ==
    \A o \in RestorePairs(fs), stamp \in Stamps :
        Foreign(fs, o.dst, o.src)
            => /\ Refused(fs, o.dst, o.src,
                          link_path(fs, o.dst, o.src, FALSE, FALSE, stamp))
               /\ BackedUp(fs, o.dst, o.src, stamp,
                           link_path(fs, o.dst, o.src, FALSE, TRUE, stamp))

\* A forced restore has linked a target that held foreign content, which
\* link_path refuses without force, and the backup holds what was there.
ConflictThenForceSeen ==
    /\ last.op = "restore" /\ ~last.dry_run /\ last.force
    /\ \E o \in Elems(last.out) :
          /\ o.res = "LINK"
          /\ Foreign(last.pre, o.dst, o.src)
          /\ link_path(last.pre, o.dst, o.src, FALSE, FALSE, 1).exc = "ConflictError"
          /\ fs[LPath(fs, o.dst)] = Link(o.src)
          /\ \E b \in BackupNames(o.dst, 1) :
                SubtreeSame(last.pre, LPath(last.pre, o.dst), fs, LPath(fs, b))

\* The one path of the last run of stow or unstow.
ThePath == last.paths[1]

\* The repository destination of the one path.
TheDest == repo_dest_for_home_path(ThePath, Home, Repo)

\* The last run was a stow (not dry) of one real file or directory below
\* home, top-level name dot-prefixed, whose mapped destination did not exist.
StowsNewPath ==
    /\ last.op = "stow" /\ ~last.dry_run /\ Len(last.paths) = 1
    /\ Exists(last.pre, ThePath) /\ ~IsSymlink(last.pre, ThePath)
    /\ IsPrefix(Home, ThePath) /\ Len(ThePath) > Len(Home)
    /\ Head(ThePath[Len(Home) + 1]) = "."
    /\ TheDest.exc = ""
    /\ ~Exists(last.pre, TheDest.path)

\* No component of the parent of `path` is occupied by a non-directory.
ParentsFree(f, path) ==
    \A n \in 1..(Len(path) - 1) :
        Occupied(f, SubSeq(path, 1, n)) => IsDir(f, SubSeq(path, 1, n))

\* The last run returned 0, the content is at the destination and the home
\* path is a link that resolves to it.
Stowed ==
    /\ last.exc = "" /\ last.rc = 0
    /\ SubtreeSame(last.pre, LPath(last.pre, ThePath), fs, LPath(fs, TheDest.path))
    /\ IsSymlink(fs, ThePath)
    /\ Resolve(fs, ThePath) = TheDest.path

\* C4 as stated: run_stow of a real home path, top-level name dot-prefixed,
\* whose mapped destination does not exist returns 0, moves the content to
\* the destination and leaves the home path a link that resolves to it.
StowEffect == StowsNewPath => Stowed

\* The destination can take the path: nothing is at it (not even a dangling
\* link), no component of its parent path is occupied by a non-directory,
\* and it is not below the path itself.
HasRoom ==
    /\ Free(last.pre, TheDest.path)
    /\ ParentsFree(last.pre, TheDest.path)
    /\ ~IsPrefix(ThePath, TheDest.path)

\* C4: run_stow of a real home path, top-level name dot-prefixed, whose
\* mapped destination does not exist and can take it, returns 0, moves the
\* content to the destination and leaves the home path a link that
\* resolves to it.
StowEffectWhereRoom == (StowsNewPath /\ HasRoom) => Stowed

\* A stow moved a path under ~/.config into a repository directory it made.
StowEffectSeen ==
    /\ StowsNewPath /\ HasRoom
    /\ ~Exists(last.pre, Front(TheDest.path))
    /\ Stowed

\* C5: run_stow of a path outside home, and run_unstow of a link whose
\* resolved target is outside the repository, end with exit status 2 and
\* change nothing.
ScopeEnforced ==
    /\ (last.op = "stow" /\ Len(last.paths) = 1 /\ ~IsPrefix(Home, ThePath))
          => (last.rc = 2 /\ fs = last.pre)
    /\ (/\ last.op = "unstow" /\ Len(last.paths) = 1
        /\ IsSymlink(last.pre, ThePath)
        /\ ~IsPrefix(Repo, Resolve(last.pre, ThePath)))
          => (last.rc = 2 /\ fs = last.pre)

\* A directory that is no link and is not empty is at `target`.
FullRealDir(f, target) ==
    /\ DirAt(f, LPath(f, target))
    /\ \E q \in DOMAIN f : q # <<>> /\ Front(q) = LPath(f, target)

\* link_path gave r in filesystem f: the directory at the target is gone,
\* the target is a link to the source, and no other entry was made (no backup).
Replaced(f, target, source, r) ==
    /\ r.exc = ""
    /\ r.res = "LINK"
    /\ DOMAIN r.f = DOMAIN f
    /\ r.f = WithNode(f, LPath(f, target), Link(source))

\* link_path gave r in filesystem f: a conflict, and nothing changed.
Kept(f, r) == r.exc = "ConflictError" /\ r.f = f

\* C6 as stated: link_path without force replaces any empty real directory
\* at the target by the link, and answers a non-empty one with a conflict.
PlaceholderAlways ==
    \A o \in RestorePairs(fs), stamp \in Stamps :
        /\ EmptyRealDir(fs, o.dst)
              => Replaced(fs, o.dst, o.src,
                          link_path(fs, o.dst, o.src, FALSE, FALSE, stamp))
        /\ FullRealDir(fs, o.dst)
              => Kept(fs, link_path(fs, o.dst, o.src, FALSE, FALSE, stamp))

\* C6: link_path without force replaces an empty real directory at the
\* target by the link when the source is a directory, without conflict or
\* backup; when the source is no directory, or the directory at the target
\* is not empty, the outcome is a conflict and nothing changes.
PlaceholderForDirectory ==
    \A o \in RestorePairs(fs), stamp \in Stamps :
        /\ (EmptyRealDir(fs, o.dst) /\ IsDir(fs, o.src))
              => Replaced(fs, o.dst, o.src,
                          link_path(fs, o.dst, o.src, FALSE, FALSE, stamp))
        /\ (EmptyRealDir(fs, o.dst) /\ ~IsDir(fs, o.src))
              => Kept(fs, link_path(fs, o.dst, o.src, FALSE, FALSE, stamp))
        /\ FullRealDir(fs, o.dst)
              => Kept(fs, link_path(fs, o.dst, o.src, FALSE, FALSE, stamp))

\* A restore without force has put a link to a source directory where an
\* empty directory was.
PlaceholderSeen ==
    /\ last.op = "restore" /\ ~last.dry_run /\ ~last.force
    /\ \E o \in Elems(last.out) :
          /\ o.res = "LINK"
          /\ EmptyRealDir(last.pre, o.dst)
          /\ IsDir(last.pre, o.src)
          /\ fs[LPath(fs, o.dst)] = Link(o.src)

\* The real run r gives each pair the outcome the dry run reported, and the
\* same exit status.
SameOutcomes(r) ==
    /\ Outcomes(r.out) = Outcomes(last.out)
    /\ r.exc = last.exc
    /\ r.rc = last.rc

\* C7: run_restore with dry_run changes nothing, and gives each pair the
\* outcome, and the run the exit status, that run_restore without dry_run
\* gives from the same filesystem.
DryRunEquivalent ==
    (last.op = "restore" /\ last.dry_run)
        => /\ fs = last.pre
           /\ \A stamp \in Stamps :
                 SameOutcomes(run_restore(last.pre, Home, Repo, FALSE, last.force, stamp))

\* C8: no conflict and no out-of-scope path ends a run with an exception:
\* every command returns, with an outcome for each path it was given.
ErrorsIsolated ==
    /\ last.exc \notin {"ConflictError", "ValueError"}
    /\ (last.op \in {"stow", "unstow"} /\ last.exc = "")
          => Len(last.out) = Len(last.paths)

\* run_unstow gave r for the path p that the last run stowed: it returned 0,
\* p is no link and holds what it held before the stow, and nothing is left
\* at the repository destination.
GivenBack(p, r) ==
    /\ r.exc = "" /\ r.rc = 0
    /\ ~IsSymlink(r.f, p)
    /\ SubtreeSame(last.pre, LPath(last.pre, p), r.f, LPath(r.f, p))
    /\ ~Occupied(r.f, repo_dest_for_home_path(p, Home, Repo).path)

\* C9: after run_stow has stowed the home path P, run_unstow of P (not dry)
\* returns 0, removes the link, and moves the content back: P is a real
\* file or directory with the original content and the repository
\* destination holds it no more.
UnstowReversesStow ==
    (last.op = "stow" /\ ~last.dry_run /\ last.exc = "")
        => \A o \in Elems(last.out), force \in BOOLEAN, stamp \in Stamps :
              o.res = "STOW"
                  => GivenBack(o.path,
                               run_unstow(fs, <<o.path>>, Home, Repo, FALSE, force, stamp))

\* A stow has moved a path under ~/.config to the repository, and run_unstow
\* of that path gives it back.
UnstowReversesStowSeen ==
    /\ last.op = "stow" /\ ~last.dry_run /\ last.exc = ""
    /\ \E o \in Elems(last.out) :
          /\ o.res = "STOW"
          /\ Len(o.path) > 2
          /\ IsSymlink(fs, o.path)
          /\ GivenBack(o.path, run_unstow(fs, <<o.path>>, Home, Repo, FALSE, FALSE, 1))

\* C10: run_unstow changes the filesystem only for a link inside home whose
\* target is inside the repository; a link outside home is answered with
\* exit status 2 and nothing changes.
UnstowInsideHome ==
    (last.op = "unstow" /\ Len(last.paths) = 1)
        => /\ fs # last.pre
                 => /\ IsSymlink(last.pre, ThePath)
                    /\ IsPrefix(Home, ThePath)
                    /\ IsPrefix(Repo, Resolve(last.pre, ThePath))
           /\ (IsSymlink(last.pre, ThePath) /\ ~IsPrefix(Home, ThePath))
                 => (last.rc = 2 /\ fs = last.pre)

\* One of the two paths is at or below the other.
Related(p, q) == IsPrefix(p, q) \/ IsPrefix(q, p)

\* run_restore gave r in filesystem f, in which the path p is stowed: p is
\* the link it was, and no pair at, above or below p is in conflict.
Satisfied(f, p, r) ==
    /\ r.exc = ""
    /\ IsSymlink(r.f, p)
    /\ r.f[LPath(r.f, p)] = f[LPath(f, p)]
    /\ \A o \in Elems(r.out) : Related(o.dst, p) => o.res # "CONFLICT"

\* C13: after run_stow has stowed a real file or directory below home with
\* exit status 0, run_restore without force finds the stowed path satisfied:
\* it reports no conflict for it and leaves it as it is.
StowThenRestore ==
    (last.op = "stow" /\ ~last.dry_run /\ last.exc = "" /\ last.rc = 0)
        => \A o \in Elems(last.out) :
              o.res = "STOW"
                  => Satisfied(fs, o.path, run_restore(fs, Home, Repo, FALSE, FALSE, 1))

\* The paths that _backup_existing is given: the targets of the last restore,
\* and the paths and repository destinations of stow.
BackupTargets ==
    {o.dst : o \in IF last.op = "restore" THEN Elems(last.out) ELSE {}}
    \cup Paths
    \cup {repo_dest_for_home_path(p, Home, Repo).path :
            p \in {q \in Paths : repo_dest_for_home_path(q, Home, Repo).exc = ""}}

\* The names tried before '<path>.bak.<stamp>.<n>'.
TriedBefore(path, stamp, n) ==
    {PathPlus(path, <<".", "bak", ".", NumStr(stamp)>>)}
    \cup {PathPlus(path, <<".", "bak", ".", NumStr(stamp), ".", NumStr(m)>>) : m \in 1..(n - 1)}

\* b is the first name of '<path>.bak.<stamp>', '.1', '.2', ... at which the
\* filesystem f holds nothing, not even a dangling link.
FirstFree(f, path, stamp, b) ==
    /\ ~Present(f, LPath(f, b))
    /\ \/ b = PathPlus(path, <<".", "bak", ".", NumStr(stamp)>>)
       \/ \E n \in 1..8 :
             /\ b = PathPlus(path, <<".", "bak", ".", NumStr(stamp), ".", NumStr(n)>>)
             /\ \A e \in TriedBefore(path, stamp, n) : Present(f, LPath(f, e))

\* A name that _unique_backup_path has made.
IsBackupName(name) == \E i \in 1..Len(name) : name[i] = "bak"

\* The backups of f: the entries with a backup name, not those inside one.
Backups(f) ==
    {q \in DOMAIN f :
        /\ IsBackupName(Last(q))
        /\ \A i \in 1..(Len(q) - 1) : ~IsBackupName(q[i])}

\* Every backup of f is a backup of g with the same content, at its path or
\* where a command has moved it, and g has no fewer backups than f.
BackupsKept(f, g) ==
    /\ \A q \in Backups(f) : \E r \in Backups(g) : SubtreeSame(f, q, g, r)
    /\ Cardinality(Backups(g)) >= Cardinality(Backups(f))

HomeEmpty(f) == DirAt(f, Home) /\ Children(f, Home) = {}

\* The top-level entries of the repository that are not ignored directories.
TopEntries(f) == {q \in Children(f, Repo) : Last(q) \notin DEFAULT_IGNORE_DIRS}

\* The home path of the top-level entry `top`: home/.N for a name N without
\* '__', home/.config/<app> for 'config__<app>'.
TargetOf(top) == Home \o _map_top_level_to_home(Last(top))

\* The descendants of the directory `top` that restore links: no
\* directories, nothing in an ignored directory or with an ignored suffix.
Linkable(f, top) ==
    {d \in Subtree(f, top) \ {top} :
        /\ f[d].kind # "dir"
        /\ \A i \in 1..Len(d) : d[i] \notin DEFAULT_IGNORE_DIRS
        /\ Suffix(Last(d)) \notin DEFAULT_IGNORE_SUFFIXES}

\* The home path t is reached as a symbolic link to src.
LinkedTo(f, t, src) == LinkAt(f, LPath(f, t)) /\ f[LPath(f, t)] = Link(src)

\* What the links of f point at strictly below `top`.
LinkedBelow(f, top) ==
    {f[r].to : r \in {q \in DOMAIN f : f[q].kind = "link"
                                        /\ IsPrefix(top, f[q].to) /\ f[q].to # top}}

\* Every path from t up to (not including) `base` is a real directory of f.
RealDirsUpTo(f, base, t) ==
    \A n \in (Len(base) + 1)..Len(t) :
        SubSeq(t, 1, n) \in DOMAIN f /\ f[SubSeq(t, 1, n)].kind = "dir"

\* A top-level file is linked at its home path.
FileLaidOut(f, top) == LinkedTo(f, TargetOf(top), top)

\* A directory 'config__<app>' is linked as a whole by exactly one link, and
\* no link points at a descendant of it.
ConfigLaidOut(f, top) ==
    /\ LinkedTo(f, TargetOf(top), top)
    /\ Cardinality({q \in DOMAIN f : f[q] = Link(top)}) = 1
    /\ LinkedBelow(f, top) = {}

\* Another directory is a tree of real directories in home, with one link for
\* each descendant that restore links and no other link into it.
TreeLaidOut(pre, f, top) ==
    /\ \A d \in Linkable(pre, top) :
          /\ LinkedTo(f, TargetOf(top) \o RelativeTo(d, top), d)
          /\ RealDirsUpTo(f, Home, Front(TargetOf(top) \o RelativeTo(d, top)))
          /\ Cardinality({q \in DOMAIN f : f[q] = Link(d)} \ DOMAIN pre) = 1
    /\ LinkedBelow(f, top) \ LinkedBelow(pre, top) = Linkable(pre, top)
    /\ ~LinkAt(f, LPath(f, TargetOf(top)))

\* The layout of the top-level entry `top` of the repository in pre.
LaidOut(pre, f, top) ==
    IF ~IsDir(pre, top)
    THEN Suffix(Last(top)) \notin DEFAULT_IGNORE_SUFFIXES => FileLaidOut(f, top)
    ELSE IF IsPrefix(<<"config", "_", "_">>, Last(top))
         THEN ConfigLaidOut(f, top)
         ELSE TreeLaidOut(pre, f, top)

\* C11: after run_restore (not a dry run) from an empty home, every top-level
\* file that is not ignored is a link at its home path, every directory
\* 'config__<app>' is one link home/.config/<app> to the directory itself with
\* no descendant linked, and every other directory is a tree of real
\* directories with one link for each linked descendant.
RestoreLayout ==
    (last.op = "restore" /\ ~last.dry_run /\ HomeEmpty(last.pre))
        => \A top \in TopEntries(last.pre) : LaidOut(last.pre, fs, top)

=============================================================================
